---- MODULE Spec2Model ----
(***************************************************************************)
(* Model of "Final Project/tracker.py": the PubTracker multi-object        *)
(* tracker (reset, step_centertrack) with its association step            *)
(* (comparing_positions, greedy_assignment, scipy's linear_sum_assignment).*)
(*                                                                         *)
(* Lengths are integers in decimetres (1 m = 10), so that the class gates  *)
(* 5.5 m and 2.5 m stay integers.  A Python exception is the field err of  *)
(* the value an operator returns; "none" is a normal return.               *)
(***************************************************************************)
EXTENDS Integers, Sequences, FiniteSets, TLC

VARIABLES cfg, tracks, id_count, op, M, ret, err, solver, high, old, skipped

vars == <<cfg, tracks, id_count, op, M, ret, err, solver, high, old, skipped>>

----------------------------------------------------------------------------
(* Bounds of the model *)

\* most detections in one frame
MaxDets == 2
\* identities issued per session are capped here
MaxId == 4
\* a Kalman state is predicted forward no further than this coordinate (dm)
MaxPos == 200

----------------------------------------------------------------------------
(* Class tables, tracker.py lines 8-35 *)

NUSCENES_TRACKING_NAMES ==
  << "bicycle", "bus", "car", "motorcycle", "pedestrian", "trailer", "truck",
     "construction_vehicle", "barrier", "traffic_cone" >>

\* metres in the source, decimetres here
NUSCENE_CLS_VELOCITY_ERROR ==
  [ car |-> 30, truck |-> 40, bus |-> 55, trailer |-> 20, pedestrian |-> 10,
    motorcycle |-> 40, bicycle |-> 25, construction_vehicle |-> 10,
    barrier |-> 10, traffic_cone |-> 10 ]

\* the cost added to a gated cell (1e18 in the source); larger than any sum
\* of distances of the model
Sentinel == 1000000
\* a solver pair whose cost is above this is discarded (1e16 in the source)
SentinelCut == 10000

Absent == << >>

Range(s) == { s[i] : i \in 1..Len(s) }

\* list.index(x): 0-based position of the first occurrence
Index(s, x) == (CHOOSE i \in 1..Len(s) : s[i] = x /\ \A j \in 1..(i-1) : s[j] # x) - 1

Abs(a) == IF a < 0 THEN -a ELSE a

\* np.sqrt on the squared distances of the model, which are perfect squares
Sqrt(n) == CHOOSE k \in 0..n : k * k = n

----------------------------------------------------------------------------
(* Inputs *)

Det(name, x, vx, score) ==
  [ detection_name |-> name, translation |-> <<x, 0>>, velocity |-> <<vx, 0>>,
    detection_score |-> score ]

\* the detections a frame is drawn from (scores in hundredths): a car, a car
\* 10 m off with score 0 that moves 10 m per unit of time (so it is projected
\* back onto the first one when time_lag = 1), a pedestrian, and a class
\* outside the tracked-class list
DetSet ==
  { Det("car", 0, 0, 100), Det("car", 100, 100, 0),
    Det("pedestrian", 0, 0, 100), Det("animal", 0, 0, 100) }

RECURSIVE SeqsUpTo(_, _)
SeqsUpTo(S, n) ==
  IF n = 0 THEN { << >> }
  ELSE LET shorter == SeqsUpTo(S, n - 1)
       IN  shorter \cup { Append(s, d) : s \in { t \in shorter : Len(t) = n - 1 }, d \in S }

Frames == SeqsUpTo(DetSet, MaxDets)

Lags == {0, 1}

\* a detection dict without the key 'translation' and one without the key
\* 'velocity'
Malformed ==
  { [ Det("car", 0, 0, 100) EXCEPT !.translation = Absent ],
    [ Det("car", 0, 0, 100) EXCEPT !.velocity = Absent ] }

\* the frames and time lags of a caller that keeps to no precondition
AnyFrames == SeqsUpTo(DetSet \cup Malformed, MaxDets)

AnyLags == {-1, 0, 1}

\* the configurations a tracker is constructed with
Configs ==
  [ hungarian : BOOLEAN, tracker : {"PointTracker", "KF"}, max_age : {1, 2},
    min_hits : {1, 2}, dataset : {"Nuscenes"}, score_update : {"None"},
    noise : {5}, s_th : {100}, det_th : {0}, del_th : {0}, use_vel : {FALSE} ]

\* and those with a dataset that has no class table (neither 'Nuscenes' nor
\* 'Waymo') or a tracker that is neither 'PointTracker' nor 'KF'
AnyConfigs ==
  Configs \cup { [ c EXCEPT !.dataset = "Kitti" ] : c \in Configs }
          \cup { [ c EXCEPT !.tracker = "EKF" ] : c \in Configs }

----------------------------------------------------------------------------
(* PubTracker.__init__, lines 128-133: the class table of the dataset; the  *)
(* attributes are not set for a dataset that is none of the two names (no  *)
(* configuration of the model uses 'Waymo')                                *)

tracking_names(c) ==
  IF c.dataset = "Nuscenes" THEN NUSCENES_TRACKING_NAMES ELSE Absent

velocity_error(c) ==
  IF c.dataset = "Nuscenes" THEN NUSCENE_CLS_VELOCITY_ERROR ELSE Absent

----------------------------------------------------------------------------
(* step_centertrack, lines 163-176: drop the classes that are not tracked  *)
(* and extend the others with ct, tracking and label_preds                 *)

Tracked(c, det) == det.detection_name \in Range(tracking_names(c))

\* ExtendDet with the class id counted from 1
ExtendDet_from1(c, det, time_lag) ==
  [ ct |-> << det.translation[1], det.translation[2] >>,
    tracking |-> IF c.tracker = "PointTracker"
                 THEN << det.velocity[1] * (-1) * time_lag,
                         det.velocity[2] * (-1) * time_lag >>
                 ELSE Absent,
    label_preds |-> Index(tracking_names(c), det.detection_name) + 1 ] @@ det

ExtendDet(c, det, time_lag) ==
  [ ct |-> << det.translation[1], det.translation[2] >>,
    tracking |-> IF c.tracker = "PointTracker"
                 THEN << det.velocity[1] * (-1) * time_lag,
                         det.velocity[2] * (-1) * time_lag >>
                 ELSE Absent,
    label_preds |-> Index(tracking_names(c), det.detection_name) ] @@ det

\* the exception of the loop of lines 164-174: self.tracking_names at line
\* 166 when __init__ has not set it, det['translation'] at line 169 or
\* det['velocity'] at line 171 when a tracked detection has no such key
NoKey(c, det) ==
  /\ Tracked(c, det)
  /\ \/ det.translation = Absent
     \/ c.tracker = "PointTracker" /\ det.velocity = Absent

FilterError(c, results) ==
  IF tracking_names(c) = Absent THEN "AttributeError"
  ELSE IF \E i \in 1..Len(results) : NoKey(c, results[i]) THEN "KeyError"
  ELSE "none"

\* the number of detections that line 167 passes over, until the loop ends
\* or raises
Skipped(c, results) ==
  IF tracking_names(c) = Absent THEN 0
  ELSE Cardinality({ i \in 1..Len(results) :
                       /\ ~Tracked(c, results[i])
                       /\ \A l \in 1..i : ~NoKey(c, results[l]) })

\* FilterResults that lets every class through (an untracked class gets the
\* label -1)
FilterResults_all(c, results, time_lag) ==
  [ i \in 1..Len(results) |->
      IF Tracked(c, results[i]) THEN ExtendDet(c, results[i], time_lag)
      ELSE [ ct |-> << results[i].translation[1], results[i].translation[2] >>,
             tracking |-> Absent, label_preds |-> -1 ] @@ results[i] ]

FilterResults(c, results, time_lag) ==
  LET kept == SelectSeq(results, LAMBDA det : Tracked(c, det))
  IN  [ i \in 1..Len(kept) |-> ExtendDet(c, kept[i], time_lag) ]

----------------------------------------------------------------------------
(* step_centertrack, lines 183-211: no tracklet exists *)

\* the state of a new KalmanFilter(6, _), line 207/288: position, velocity, 0
NewKF(c, track) ==
  IF c.tracker = "KF"
  THEN << track.ct[1], track.ct[2], track.velocity[1], track.velocity[2], 0, 0 >>
  ELSE Absent

\* FirstFrameTrack with the age counted from 0
FirstFrameTrack_age0(c, result, id) ==
  [ tracking_id |-> id, age |-> 0, active |-> c.min_hits,
    KF |-> NewKF(c, result) ] @@ result

\* FirstFrameTrack with the activity gated by the score, as in the lines
\* 192-195 that the source has commented out
FirstFrameTrack_gated(c, result, id) ==
  [ tracking_id |-> id, age |-> 1,
    active |-> IF result.detection_score > c.s_th THEN c.min_hits ELSE 0,
    KF |-> NewKF(c, result) ] @@ result

\* lines 186-208 for one detection; id is self.id_count after line 187
FirstFrameTrack(c, result, id) ==
  [ tracking_id |-> id, age |-> 1, active |-> c.min_hits,
    KF |-> NewKF(c, result) ] @@ result

\* FirstFrame with the identities counted from 1 in every call
FirstFrame_restart(c, idc, results) ==
  LET out == [ k \in 1..Len(results) |-> FirstFrameTrack(c, results[k], k) ]
  IN  [ tracks |-> out, id_count |-> Len(results), ret |-> out,
        err |-> "none", solver |-> "none" ]

\* track['velocity'] at line 207 raises for a detection without the key,
\* after line 187 has counted it and before line 210 stores anything
FirstFrame(c, idc, results) ==
  LET out == [ k \in 1..Len(results) |-> FirstFrameTrack(c, results[k], idc + k) ]
      bad == { k \in 1..Len(results) :
                 c.tracker = "KF" /\ results[k].velocity = Absent }
  IN  IF bad # {}
      THEN [ tracks |-> << >>,
             id_count |-> idc + (CHOOSE k \in bad : \A l \in bad : k <= l),
             ret |-> << >>, err |-> "KeyError", solver |-> "none" ]
      ELSE [ tracks |-> out, id_count |-> idc + Len(results), ret |-> out,
             err |-> "none", solver |-> "none" ]

----------------------------------------------------------------------------
(* Cost model, comparing_positions lines 55-67.  Rows are detections        *)
(* (positions2), columns are tracks (positions1); indices are 1-based here *)
(* and 0-based in the source.                                              *)

\* line 63-64: Euclidean distance (|dx| when dy = 0, without the search)
Distance(p, q) ==
  IF p[2] = q[2] THEN Abs(p[1] - q[1])
  ELSE Sqrt((p[1] - q[1]) * (p[1] - q[1]) + (p[2] - q[2]) * (p[2] - q[2]))

\* line 65-66: out of the detection class's gate, or not the same class
Invalid(c, track, det, d) ==
  \/ d > velocity_error(c)[det.detection_name]
  \/ det.label_preds # track.label_preds

\* line 67: dist + invalid * 1e18
CostMatrix(c, positions1_data, positions2_data, positions1, positions2) ==
  [ i \in 1..Len(positions2_data) |->
      [ j \in 1..Len(positions1_data) |->
          LET d == Distance(positions1[j], positions2[i])
          IN  d + (IF Invalid(c, positions1_data[j], positions2_data[i], d)
                   THEN Sentinel ELSE 0) ] ]

\* line 69: dist[dist > 1e18] = 1e18
Clamp(dist) ==
  [ i \in DOMAIN dist |->
      [ j \in DOMAIN dist[i] |-> IF dist[i][j] > Sentinel THEN Sentinel ELSE dist[i][j] ] ]

----------------------------------------------------------------------------
(* Assignment solvers *)

Min(a, b) == IF a < b THEN a ELSE b

\* the assignments of an n x m matrix: min(n, m) cells, no row or column
\* twice, each as the sequence of its (row, column) pairs ordered by row
Injections(k, n) ==
  { f \in [ 1..k -> 1..n ] : \A i \in 1..k, j \in 1..k : i < j => f[i] # f[j] }

Ascending(R) ==
  [ k \in 1..Cardinality(R) |->
      CHOOSE r \in R : Cardinality({ x \in R : x < r }) = k - 1 ]

Assignments(n, m) ==
  IF n <= m
  THEN { [ i \in 1..n |-> << i, f[i] >> ] : f \in Injections(n, m) }
  ELSE { [ k \in 1..m |->
             LET row == Ascending({ f[j] : j \in 1..m })[k]
             IN  << row, CHOOSE j \in 1..m : f[j] = row >> ] :
         f \in Injections(m, n) }

RECURSIVE SumCost(_, _, _)
SumCost(dist, A, k) ==
  IF k = 0 THEN 0 ELSE dist[A[k][1]][A[k][2]] + SumCost(dist, A, k - 1)

\* scipy.optimize.linear_sum_assignment, called at line 70: a minimum cost
\* assignment, returned as the tuple (row_ind, col_ind) of two arrays
linear_sum_assignment(dist, m) ==
  LET all   == Assignments(Len(dist), m)
      costs == { SumCost(dist, A, Len(A)) : A \in all }
      least == CHOOSE x \in costs : \A y \in costs : x <= y
  IN  [ err |-> "none", type |-> "tuple",
        pairs |-> CHOOSE A \in all : SumCost(dist, A, Len(A)) = least ]

\* lines 38-51: the body raises before anything is matched
greedy_assignment(dist) ==
  [ err |-> "NotImplementedError", type |-> "ndarray", pairs |-> << >> ]

\* matched_indices[:, k]: the k-th column of an (n, 2) array.  A tuple takes
\* integer and slice subscripts only, so the subscript (slice, k) raises.
Column(matched_indices, k) ==
  IF matched_indices.type = "ndarray"
  THEN [ err |-> "none", val |-> { matched_indices.pairs[i][k] : i \in 1..Len(matched_indices.pairs) } ]
  ELSE [ err |-> "TypeError", val |-> {} ]

\* [d for d in range(n) if not (d in matched_indices[:, k])], lines 77 and 78;
\* the subscript is evaluated once per d, so not at all when n = 0
Unmatched(n, matched_indices, k) ==
  IF n = 0 THEN [ err |-> "none", val |-> << >> ]
  ELSE LET col == Column(matched_indices, k)
       IN  [ err |-> col.err,
             val |-> SelectSeq([ d \in 1..n |-> d ], LAMBDA d : d \notin col.val) ]

----------------------------------------------------------------------------
(* comparing_positions, lines 54-90 *)

Raised(e, s) ==
  [ err |-> e, solver |-> s, matches |-> << >>,
    unmatched_positions1_data |-> << >>, unmatched_positions2_data |-> << >> ]

\* lines 77-90, with the solver's answer in matched_indices
AfterSolver(c, dist, matched_indices, positions1, positions2, s) ==
  LET u1 == Unmatched(Len(positions1), matched_indices, 2)
      u2 == Unmatched(Len(positions2), matched_indices, 1)
      gated(p) == dist[p[1]][p[2]] > SentinelCut
      kept == SelectSeq(matched_indices.pairs, LAMBDA p : ~gated(p))
      dropped == SelectSeq(matched_indices.pairs, LAMBDA p : gated(p))
  IN  IF u1.err # "none" THEN Raised(u1.err, s)
      ELSE IF u2.err # "none" THEN Raised(u2.err, s)
      ELSE IF c.hungarian
      THEN [ err |-> "none", solver |-> s, matches |-> kept,
             unmatched_positions1_data |-> u1.val,
             unmatched_positions2_data |->
               u2.val \o [ i \in 1..Len(dropped) |-> dropped[i][1] ] ]
      ELSE [ err |-> "none", solver |-> s, matches |-> matched_indices.pairs,
             unmatched_positions1_data |-> u1.val,
             unmatched_positions2_data |-> u2.val ]

comparing_positions(c, positions1_data, positions2_data, positions1, positions2) ==
  LET m    == Len(positions1_data)
      dist == CostMatrix(c, positions1_data, positions2_data, positions1, positions2)
  IN  IF Len(positions1) > 0
      THEN IF c.hungarian
           THEN AfterSolver(c, Clamp(dist), linear_sum_assignment(Clamp(dist), m),
                            positions1, positions2, "linear_sum_assignment")
           ELSE LET matched_indices == greedy_assignment(dist)
                IN  IF matched_indices.err # "none"
                    THEN Raised(matched_indices.err, "greedy_assignment")
                    ELSE AfterSolver(c, dist, matched_indices, positions1, positions2,
                                     "greedy_assignment")
      ELSE IF m # 0 THEN Raised("AssertionError", "none")
      ELSE AfterSolver(c, dist, [ err |-> "none", type |-> "ndarray", pairs |-> << >> ],
                       positions1, positions2, "none")

----------------------------------------------------------------------------
(* step_centertrack, lines 214-245: the positions that are compared *)

Add(p, q) == << p[1] + q[1], p[2] + q[2] >>

\* KalmanFilter.predict with the transition matrix F of lines 237-242
Predict(x, t) ==
  << x[1] + t * x[3] + t * t * x[5], x[2] + t * x[4] + t * t * x[6],
     x[3] + t * x[5], x[4] + t * x[6], x[5], x[6] >>

\* lines 236-243: every tracklet's filter is moved forward in place
PredictTracks(trks, time_lag) ==
  [ j \in 1..Len(trks) |-> [ trks[j] EXCEPT !.KF = Predict(@, time_lag) ] ]

\* lines 217-226 (PointTracker) and 232-233 (KF)
DetPositions(c, results) ==
  IF c.tracker = "PointTracker" /\ results[1].tracking # Absent
  THEN [ i \in 1..Len(results) |-> Add(results[i].ct, results[i].tracking) ]
  ELSE [ i \in 1..Len(results) |-> results[i].ct ]

\* lines 228-229 (PointTracker) and 243-245 (KF)
TrackPositions(c, trks) ==
  IF c.tracker = "PointTracker"
  THEN [ j \in 1..Len(trks) |-> trks[j].ct ]
  ELSE [ j \in 1..Len(trks) |-> << trks[j].KF[1], trks[j].KF[2] >> ]

----------------------------------------------------------------------------
(* step_centertrack, lines 252-327: matches, births and unmatched tracks *)

\* KalmanFilter.update, lines 261 and 263: the measured components replace
\* the predicted ones (the filter's gain, a real number, is left out)
KFUpdate(x, z) == [ i \in 1..6 |-> IF i <= Len(z) THEN z[i] ELSE x[i] ]

\* lines 254-268 for the pair m = (detection, track)
MatchedTrack(c, trks, results, m) ==
  LET track == results[m[1]]
      prior == trks[m[2]]
      kf    == KFUpdate(prior.KF, IF c.use_vel THEN track.ct \o track.velocity
                                  ELSE track.ct)
      base  == [ tracking_id |-> prior.tracking_id, age |-> 1,
                 active |-> prior.active + 1 ]
  IN  IF c.tracker = "KF"
      THEN (base @@ [ KF |-> kf, translation |-> << kf[1], kf[2] >>,
                      velocity |-> << kf[3], kf[4] >> ]) @@ track
      ELSE (base @@ [ KF |-> Absent ]) @@ track

\* lines 272-294 for one unmatched detection; id is self.id_count after 273
BornTrack(c, result, id) ==
  [ tracking_id |-> id, age |-> 1,
    active |-> IF result.detection_score > c.det_th THEN 1 ELSE 0,
    KF |-> NewKF(c, result) ] @@ result

\* line 303: the score decay of an unmatched track
Decayed(c, track) ==
  IF c.score_update # "None"
  THEN [ track EXCEPT !.detection_score = @ - c.noise ]
  ELSE track

\* line 306
Kept(c, track) == track.age < c.max_age /\ track.detection_score > c.del_th

\* lines 307-323 for an unmatched track that is kept
AgedTrack(c, track) ==
  LET t1 == [ track EXCEPT !.age = @ + 1,
                           !.active = IF track.detection_score > c.s_th
                                      THEN @ + 1 ELSE 0 ]
  IN  IF t1.tracking # Absent
      THEN LET ct == Add(t1.ct, << t1.tracking[1] * (-1), t1.tracking[2] * (-1) >>)
           IN  [ t1 EXCEPT !.ct = ct, !.translation = ct ]
      ELSE IF t1.KF # Absent
      THEN [ t1 EXCEPT !.translation = << t1.KF[1], t1.KF[2] >>,
                       !.velocity = << t1.KF[3], t1.KF[4] >> ]
      ELSE t1

Lifecycle(c, trks, idc, results, matching) ==
  LET matched == matching.matches
      unmatched_trk == matching.unmatched_positions1_data
      unmatched_det == matching.unmatched_positions2_data
      continued == [ k \in 1..Len(matched) |-> MatchedTrack(c, trks, results, matched[k]) ]
      born == [ k \in 1..Len(unmatched_det) |->
                  BornTrack(c, results[unmatched_det[k]], idc + k) ]
      stale == [ k \in 1..Len(unmatched_trk) |-> Decayed(c, trks[unmatched_trk[k]]) ]
      alive == SelectSeq(stale, LAMBDA t : Kept(c, t))
      aged == [ k \in 1..Len(alive) |-> AgedTrack(c, alive[k]) ]
      out == continued \o born \o aged
  IN  [ tracks |-> out, id_count |-> idc + Len(unmatched_det), ret |-> out,
        err |-> "none", solver |-> matching.solver ]

----------------------------------------------------------------------------
(* PubTracker.step_centertrack, lines 143-327 *)

\* an exception leaves self.tracks and self.id_count as they are then
Raise(trks, idc, e, s) ==
  [ tracks |-> trks, id_count |-> idc, ret |-> << >>, err |-> e, solver |-> s ]

\* lines 231-245: the tracklets as the association step sees them
Predicted(c, trks, time_lag) ==
  IF c.tracker = "KF" THEN PredictTracks(trks, time_lag) ELSE trks

\* line 248
Association(c, trks1, results) ==
  comparing_positions(c, trks1, results, TrackPositions(c, trks1),
                      DetPositions(c, results))

\* lines 214-327; results[0] at line 217 raises on an empty list, and the
\* local variable tracks of line 248 is bound in neither branch of lines
\* 214 and 231 when self.tracker is a third value
Steady(c, trks, idc, results, time_lag) ==
  IF c.tracker = "PointTracker" /\ Len(results) = 0
  THEN Raise(trks, idc, "IndexError", "none")
  ELSE IF c.tracker \notin {"PointTracker", "KF"}
  THEN Raise(trks, idc, "UnboundLocalError", "none")
  ELSE LET trks1 == Predicted(c, trks, time_lag)
           matching == Association(c, trks1, results)
       IN  IF matching.err # "none"
           THEN Raise(trks1, idc, matching.err, matching.solver)
           ELSE Lifecycle(c, trks1, idc, results, matching)

\* EmptyFrame that returns the tracklets without clearing them
EmptyFrame_keep(trks, idc) ==
  [ tracks |-> trks, id_count |-> idc, ret |-> trks, err |-> "none",
    solver |-> "none", M |-> -1 ]

\* lines 157-159: no detection in this frame
EmptyFrame(trks, idc) ==
  [ tracks |-> << >>, id_count |-> idc, ret |-> << >>, err |-> "none",
    solver |-> "none", M |-> -1 ]

\* lines 161-327, e being the exception of the loop of lines 164-174
NonEmptyFrame(c, trks, idc, results, time_lag, e) ==
  IF e # "none"
  THEN Raise(trks, idc, e, "none") @@ [ M |-> -1 ]
  ELSE LET temp == FilterResults(c, results, time_lag)
           sizes == [ M |-> Len(trks) ]
       IN  IF Len(trks) = 0
           THEN FirstFrame(c, idc, temp) @@ sizes
           ELSE Steady(c, trks, idc, temp, time_lag) @@ sizes

step_centertrack(c, trks, idc, results, time_lag) ==
  IF Len(results) = 0
  THEN EmptyFrame(trks, idc)
  ELSE NonEmptyFrame(c, trks, idc, results, time_lag, FilterError(c, results))

----------------------------------------------------------------------------
(* The tracker as a state machine.  cfg, tracks and id_count are the       *)
(* fields of PubTracker; op, M, ret, err and solver describe the last      *)
(* call: which one it was, the number of tracklets of line 179 (-1 when    *)
(* the line is not reached), what it returned, the exception it raised and *)
(* the solver routine it called.  high is the highest identity an output   *)
(* has carried since the construction or the last reset, and old holds the *)
(* (identity, age) pairs of the track set as the last call of              *)
(* step_centertrack found it; skipped tells that the last call has passed  *)
(* over a detection at line 167 and has gone on to return.                 *)

Ids(trks) == { trks[i].tracking_id : i \in 1..Len(trks) }

Highest(S) == IF S = {} THEN 0 ELSE CHOOSE x \in S : \A y \in S : y <= x

IdAges(trks) == { << trks[i].tracking_id, trks[i].age >> : i \in 1..Len(trks) }

\* PubTracker.__init__, lines 113-137
Init ==
  /\ cfg \in Configs
  /\ tracks = << >>
  /\ id_count = 0
  /\ op = "init"
  /\ M = -1
  /\ ret = << >>
  /\ err = "none"
  /\ solver = "none"
  /\ high = 0
  /\ old = {}
  /\ skipped = FALSE

\* reset that leaves the identity counter as it is
reset_keeps_count ==
  /\ tracks' = << >>
  /\ id_count' = id_count
  /\ op' = "reset"
  /\ M' = -1
  /\ ret' = << >>
  /\ err' = "none"
  /\ solver' = "none"
  /\ high' = 0
  /\ old' = {}
  /\ skipped' = FALSE
  /\ UNCHANGED cfg

\* PubTracker.reset, lines 139-141
reset ==
  /\ tracks' = << >>
  /\ id_count' = 0
  /\ op' = "reset"
  /\ M' = -1
  /\ ret' = << >>
  /\ err' = "none"
  /\ solver' = "none"
  /\ high' = 0
  /\ old' = {}
  /\ skipped' = FALSE
  /\ UNCHANGED cfg

InBounds(r) ==
  /\ r.id_count <= MaxId
  /\ \A i \in 1..Len(r.tracks) :
       r.tracks[i].KF # Absent =>
         Abs(r.tracks[i].KF[1]) <= MaxPos /\ Abs(r.tracks[i].KF[2]) <= MaxPos

\* one call of step_centertrack(results, time_lag)
ProcessFrame(results, time_lag) ==
    \E r \in { step_centertrack(cfg, tracks, id_count, results, time_lag) } :
        /\ InBounds(r)
        /\ tracks' = r.tracks
        /\ id_count' = r.id_count
        /\ op' = "frame"
        /\ M' = r.M
        /\ ret' = r.ret
        /\ err' = r.err
        /\ solver' = r.solver
        /\ high' = Highest({high} \cup Ids(r.ret))
        /\ old' = IdAges(tracks)
        /\ skipped' = (r.err = "none" /\ Skipped(cfg, results) > 0)
        /\ UNCHANGED cfg

Frame == \E results \in Frames, time_lag \in Lags : ProcessFrame(results, time_lag)

Next == reset \/ Frame

Spec == Init /\ [][Next]_vars

\* the tracker under a caller that keeps to no precondition: any
\* configuration that __init__ accepts, any frame and any time lag
InitAny ==
  /\ cfg \in AnyConfigs
  /\ tracks = << >>
  /\ id_count = 0
  /\ op = "init"
  /\ M = -1
  /\ ret = << >>
  /\ err = "none"
  /\ solver = "none"
  /\ high = 0
  /\ old = {}
  /\ skipped = FALSE

FrameAny ==
  \E results \in AnyFrames, time_lag \in AnyLags : ProcessFrame(results, time_lag)

NextAny == reset \/ FrameAny

SpecAny == InitAny /\ [][NextAny]_vars

----------------------------------------------------------------------------
(* Properties *)

UniqueIds(trks) ==
  \A i \in 1..Len(trks), j \in 1..Len(trks) :
    i # j => trks[i].tracking_id # trks[j].tracking_id

\* the detections of a frame that pass the class filter, in input order
Admitted(results) == SelectSeq(results, LAMBDA det : Tracked(cfg, det))

\* the track record carries the fields of the detection
Carries(track, det) ==
  /\ track.detection_name = det.detection_name
  /\ track.translation = det.translation
  /\ track.velocity = det.velocity
  /\ track.detection_score = det.detection_score

\* C1: in a session (no reset in between) the tracks of the retained set and
\* of the output never share a tracking_id, and a track that continues no
\* track of the set before the call carries an identity greater than every
\* identity an output of the session has carried, also after an empty frame
\* has cleared the set.
C1_IdentityNeverReused ==
  [][ op' = "frame" =>
        /\ UniqueIds(tracks')
        /\ UniqueIds(ret')
        /\ \A k \in 1..Len(ret') :
             ret'[k].tracking_id \notin Ids(tracks) => ret'[k].tracking_id > high
    ]_vars

\* two tracks are born with the identities 3 and 4 after the tracks 1 and 2
\* of the session were discarded
C1_Witness ==
  /\ op = "frame" /\ M = 0 /\ err = "none"
  /\ Len(ret) = 2 /\ ret[1].tracking_id = 3 /\ ret[2].tracking_id = 4
  /\ tracks = ret

\* the positions line 248 compares, for the detection i of the filtered
\* frame and the tracklet j: the pair passes the gate of lines 65-66
InGate(results, time_lag, i, j) ==
  LET temp  == FilterResults(cfg, results, time_lag)
      trks1 == Predicted(cfg, tracks, time_lag)
  IN  ~Invalid(cfg, trks1[j], temp[i],
               Distance(TrackPositions(cfg, trks1)[j], DetPositions(cfg, temp)[i]))

\* C2: under either strategy, when the track set is not empty and a
\* detection of the frame has the class of a live track and lies within the
\* class's gate of the track's predicted position, the call returns normally
\* and the output holds a record with such a track's identity, age 1 and the
\* track's activity plus 1.
C2_MatchContinuesTrack ==
  [][ tracks # << >> =>
        \A results \in Frames, time_lag \in Lags :
          LET temp  == FilterResults(cfg, results, time_lag)
              pairs == { p \in (1..Len(temp)) \X (1..Len(tracks)) :
                           InGate(results, time_lag, p[1], p[2]) }
          IN  (ProcessFrame(results, time_lag) /\ pairs # {}) =>
                /\ err' = "none"
                /\ \E p \in pairs : \E k \in 1..Len(ret') :
                     /\ ret'[k].tracking_id = tracks[p[2]].tracking_id
                     /\ ret'[k].age = 1
                     /\ ret'[k].active = tracks[p[2]].active + 1
    ]_vars

\* C3: under the optimal strategy, with one prior track of age 1
\* (max_age > 1, score above the deletion threshold) and one admitted
\* detection whose pair with it is gated, the output holds the prior track
\* with age 2 and a track born from the detection with the next identity.
C3_GatedPairBothUnmatched ==
  [][ ( /\ cfg.hungarian
        /\ Len(tracks) = 1
        /\ cfg.max_age > 1
        /\ tracks[1].age = 1
        /\ tracks[1].detection_score > cfg.del_th ) =>
        \A results \in Frames, time_lag \in Lags :
          LET temp == FilterResults(cfg, results, time_lag)
          IN  ( /\ ProcessFrame(results, time_lag)
                /\ Len(temp) = 1
                /\ ~InGate(results, time_lag, 1, 1) ) =>
                /\ err' = "none"
                /\ Len(ret') = 2
                /\ \E k \in 1..Len(ret') :
                     ret'[k].tracking_id = tracks[1].tracking_id /\ ret'[k].age = 2
                /\ \E k \in 1..Len(ret') :
                     ret'[k].tracking_id = id_count + 1 /\ ret'[k].age = 1
    ]_vars

\* C4: a frame without an admitted detection (an empty list, or a list whose
\* classes are all outside the tracked-class list) returns the empty list
\* without an exception, leaves the track set empty and calls no solver,
\* whatever the track set was.
C4_NoAdmittedDetection ==
  [][ \A results \in Frames, time_lag \in Lags :
        (ProcessFrame(results, time_lag) /\ Admitted(results) = << >>) =>
          /\ err' = "none"
          /\ ret' = << >>
          /\ tracks' = << >>
          /\ solver' = "none"
    ]_vars

\* C5: a track of the retained set whose age is at least max_age when a
\* call of step_centertrack begins is not in the output of that call.
C5_DeletionGuarantee ==
  [][ op' = "frame" =>
        \A j \in 1..Len(tracks) :
          tracks[j].age >= cfg.max_age => tracks[j].tracking_id \notin Ids(ret')
    ]_vars

\* a call found a track whose age had reached max_age and returned without
\* it
C5_Witness ==
  /\ op = "frame" /\ err = "none"
  /\ \E p \in old : p[2] >= cfg.max_age /\ p[1] \notin Ids(ret)

\* C6: in every frame with N >= 1 admitted detections and M >= 1 prior
\* tracks the association step returns, and what it returns is a partition:
\* every detection index is in exactly one of the match pairs and the
\* unmatched detections, every track index in exactly one of the match
\* pairs and the unmatched tracks.
C6_ExhaustivePartition ==
  [][ tracks # << >> =>
        \A results \in Frames, time_lag \in Lags :
          LET temp == FilterResults(cfg, results, time_lag)
              a    == Association(cfg, Predicted(cfg, tracks, time_lag), temp)
              Occurrences(seq, x) == Cardinality({ k \in 1..Len(seq) : seq[k] = x })
              InMatches(x, side) ==
                Cardinality({ k \in 1..Len(a.matches) : a.matches[k][side] = x })
          IN  (ProcessFrame(results, time_lag) /\ Len(temp) >= 1) =>
                /\ a.err = "none"
                /\ \A i \in 1..Len(temp) :
                     InMatches(i, 1) + Occurrences(a.unmatched_positions2_data, i) = 1
                /\ \A j \in 1..Len(tracks) :
                     InMatches(j, 2) + Occurrences(a.unmatched_positions1_data, j) = 1
    ]_vars

\* C8: a track keeps its class label: a record of the output or of the
\* retained set that carries the identity of a track of the set before the
\* call carries that track's class, and a track born from a detection
\* carries the detection's class.
C8_ClassLabelFixed ==
  [][ op' = "frame" =>
        /\ \A j \in 1..Len(tracks) :
             /\ \A k \in 1..Len(ret') :
                  ret'[k].tracking_id = tracks[j].tracking_id =>
                    /\ ret'[k].detection_name = tracks[j].detection_name
                    /\ ret'[k].label_preds = tracks[j].label_preds
             /\ \A k \in 1..Len(tracks') :
                  tracks'[k].tracking_id = tracks[j].tracking_id =>
                    /\ tracks'[k].detection_name = tracks[j].detection_name
                    /\ tracks'[k].label_preds = tracks[j].label_preds
        /\ tracks = << >> =>
             \A results \in Frames, time_lag \in Lags :
               ProcessFrame(results, time_lag) =>
                 /\ Len(ret') = Len(Admitted(results))
                 /\ \A k \in 1..Len(ret') :
                      /\ ret'[k].detection_name = Admitted(results)[k].detection_name
                      /\ tracking_names(cfg)[ret'[k].label_preds + 1]
                           = ret'[k].detection_name
    ]_vars

\* a later call has gone by and the retained set still holds the pedestrian
\* born with identity 2 after a car
C8_Witness ==
  /\ op = "frame" /\ M = 2
  /\ Len(tracks) = 2
  /\ tracks[1].tracking_id = 1 /\ tracks[1].detection_name = "car"
  /\ tracks[2].tracking_id = 2 /\ tracks[2].detection_name = "pedestrian"

\* C9: reset leaves the track set empty, the identity counter 0 and the
\* configuration as it was, and the call of step_centertrack that follows
\* does what it does on a newly constructed tracker of that configuration
\* (the first track born has identity 1).
C9_ResetIsFresh ==
  [][ /\ op' = "reset" => tracks' = << >> /\ id_count' = 0 /\ cfg' = cfg
      /\ op = "reset" =>
           \A results \in Frames, time_lag \in Lags :
             ProcessFrame(results, time_lag) =>
               LET fresh == step_centertrack(cfg, << >>, 0, results, time_lag)
               IN  /\ tracks' = fresh.tracks
                   /\ id_count' = fresh.id_count
                   /\ ret' = fresh.ret
                   /\ err' = fresh.err
                   /\ ret' # << >> => ret'[1].tracking_id = 1
    ]_vars

\* the tracker has been reset
C9_Witness ==
  op = "reset" /\ tracks = << >> /\ id_count = 0 /\ ret = << >>

\* C10: a call with an empty track set and at least one admitted detection
\* returns normally without calling a solver, and its output and the
\* retained set hold one track per admitted detection, in input order, with
\* the next consecutive identities, age 1 and activity min_hits, whatever
\* the detection's score.
C10_EmptySetBirths ==
  [][ tracks = << >> =>
        \A results \in Frames, time_lag \in Lags :
          (ProcessFrame(results, time_lag) /\ Admitted(results) # << >>) =>
            /\ err' = "none"
            /\ solver' = "none"
            /\ tracks' = ret'
            /\ Len(ret') = Len(Admitted(results))
            /\ \A k \in 1..Len(ret') :
                 /\ Carries(ret'[k], Admitted(results)[k])
                 /\ ret'[k].tracking_id = id_count + k
                 /\ ret'[k].age = 1
                 /\ ret'[k].active = cfg.min_hits
    ]_vars

\* min_hits = 2: a detection of score 1 and one of score 0 were born in this
\* order with activity 2, after an earlier track of the session
C10_Witness ==
  /\ cfg.min_hits = 2
  /\ op = "frame" /\ M = 0 /\ err = "none" /\ solver = "none"
  /\ Len(ret) = 2
  /\ ret[1].detection_score = 100 /\ ret[1].tracking_id = 2 /\ ret[1].active = 2
  /\ ret[2].detection_score = 0 /\ ret[2].tracking_id = 3 /\ ret[2].active = 2
  /\ ret[2].age = 1

\* the tracklet j is out of the gate of every detection of the filtered
\* frame, so that no strategy may match it
Stale(results, time_lag, j) ==
  \A i \in 1..Len(FilterResults(cfg, results, time_lag)) :
    ~InGate(results, time_lag, i, j)

\* C11: in a frame with an admitted detection, a track of the set that no
\* detection can match and that passes the test of line 306 (age < max_age,
\* score above the deletion threshold) is in the output of the call with its
\* previous age plus 1.
C11_AgeMonotonic ==
  [][ tracks # << >> =>
        \A results \in Frames, time_lag \in Lags :
          (ProcessFrame(results, time_lag) /\ Admitted(results) # << >>) =>
            \A j \in 1..Len(tracks) :
              ( /\ Stale(results, time_lag, j)
                /\ tracks[j].age < cfg.max_age
                /\ tracks[j].detection_score > cfg.del_th ) =>
                \E k \in 1..Len(ret') :
                  /\ ret'[k].tracking_id = tracks[j].tracking_id
                  /\ ret'[k].age = tracks[j].age + 1
    ]_vars

\* C12: a call of step_centertrack with a negative time_lag raises: it
\* returns no track list and leaves the track set and the identity counter
\* as they were.
C12_NegativeLagRejected ==
  [][ \A results \in AnyFrames, time_lag \in AnyLags :
        (ProcessFrame(results, time_lag) /\ time_lag < 0) =>
          /\ err' # "none"
          /\ ret' = << >>
          /\ tracks' = tracks
          /\ id_count' = id_count
    ]_vars

\* C13: no tracker exists whose dataset has no class table or whose tracker
\* is neither 'PointTracker' nor 'KF' and that fails for it inside a call of
\* step_centertrack (the construction has failed instead).
C13_ConfigFailsFast ==
  (cfg.dataset # "Nuscenes" \/ cfg.tracker \notin {"PointTracker", "KF"}) =>
    ~(op = "frame" /\ err \in {"AttributeError", "UnboundLocalError"})

C15_MalformedSkipped ==
  [][ \A results \in AnyFrames, time_lag \in AnyLags :
        LET good == SelectSeq(results, LAMBDA det : det \notin Malformed)
        IN  ( /\ Len(good) > 0
              /\ Len(good) < Len(results)
              /\ ProcessFrame(results, time_lag) ) =>
              LET alone == step_centertrack(cfg, tracks, id_count, good, time_lag)
              IN  /\ err' # "KeyError"
                  /\ ret' = alone.ret
                  /\ tracks' = alone.tracks
                  /\ id_count' = alone.id_count
    ]_vars

\* C16: for the cost matrix of every frame with an admitted detection and a
\* non-empty track set, greedy_assignment returns pairs (detection, track)
\* whose cost is below the sentinel, with no row and no column twice, and
\* when one cell of the matrix alone is below the sentinel, that cell is the
\* one pair returned (the match of the optimal strategy).
C16_GreedyAssignment ==
  tracks # << >> =>
    \A results \in Frames, time_lag \in Lags :
      LET temp   == FilterResults(cfg, results, time_lag)
          trks1  == Predicted(cfg, tracks, time_lag)
          dist   == CostMatrix(cfg, trks1, temp, TrackPositions(cfg, trks1),
                               DetPositions(cfg, temp))
          g      == greedy_assignment(dist)
          finite == { p \in (1..Len(temp)) \X (1..Len(trks1)) :
                        dist[p[1]][p[2]] < Sentinel }
      IN  Len(temp) >= 1 =>
            /\ g.err = "none"
            /\ \A k \in 1..Len(g.pairs) : g.pairs[k] \in finite
            /\ \A k \in 1..Len(g.pairs), l \in 1..Len(g.pairs) :
                 k # l => g.pairs[k][1] # g.pairs[l][1] /\ g.pairs[k][2] # g.pairs[l][2]
            /\ Cardinality(finite) = 1 => { g.pairs[k] : k \in 1..Len(g.pairs) } = finite

\* C17: in a frame with an admitted detection and a non-empty track set,
\* for every track that no detection can match, with s its score less the
\* noise when score_update is set and its score otherwise: if age < max_age
\* and s > del_th, the output and the track set hold the track with age + 1,
\* score s and activity + 1 when s > s_th, activity 0 otherwise; if not,
\* neither the output nor the track set holds the track.
C17_UnmatchedTrackLifecycle ==
  [][ tracks # << >> =>
        \A results \in Frames, time_lag \in Lags :
          (ProcessFrame(results, time_lag) /\ Admitted(results) # << >>) =>
            \A j \in 1..Len(tracks) :
              Stale(results, time_lag, j) =>
                LET s == IF cfg.score_update # "None"
                         THEN tracks[j].detection_score - cfg.noise
                         ELSE tracks[j].detection_score
                    Aged(t) ==
                      /\ t.tracking_id = tracks[j].tracking_id
                      /\ t.age = tracks[j].age + 1
                      /\ t.detection_score = s
                      /\ t.active = IF s > cfg.s_th THEN tracks[j].active + 1 ELSE 0
                IN  IF tracks[j].age < cfg.max_age /\ s > cfg.del_th
                    THEN /\ \E k \in 1..Len(ret') : Aged(ret'[k])
                         /\ \E k \in 1..Len(tracks') : Aged(tracks'[k])
                    ELSE /\ tracks[j].tracking_id \notin Ids(ret')
                         /\ tracks[j].tracking_id \notin Ids(tracks')
    ]_vars

\* C18: in a frame with a non-empty track set, every admitted detection
\* that is out of the gate of every track is born: the output holds a record
\* with the detection's fields, an identity above the counter before the
\* call, age 1 and activity 1 when its score is above det_th, 0 otherwise.
C18_SteadyStateBirth ==
  [][ tracks # << >> =>
        \A results \in Frames, time_lag \in Lags :
          ProcessFrame(results, time_lag) =>
            \A i \in 1..Len(Admitted(results)) :
              (\A j \in 1..Len(tracks) : ~InGate(results, time_lag, i, j)) =>
                \E k \in 1..Len(ret') :
                  /\ Carries(ret'[k], Admitted(results)[i])
                  /\ ret'[k].tracking_id > id_count
                  /\ ret'[k].age = 1
                  /\ ret'[k].active =
                       IF Admitted(results)[i].detection_score > cfg.det_th
                       THEN 1 ELSE 0
    ]_vars

\* C19: after a call of step_centertrack (max_age >= 1, min_hits >= 0) every
\* track of the track set and of the output has an integer age between 1
\* and max_age and an integer activity that is not negative.
C19_AgeActivityRange ==
  (op = "frame" /\ cfg.max_age >= 1 /\ cfg.min_hits >= 0) =>
    /\ \A k \in 1..Len(tracks) :
         tracks[k].age \in 1..cfg.max_age /\ tracks[k].active \in Nat
    /\ \A k \in 1..Len(ret) :
         ret[k].age \in 1..cfg.max_age /\ ret[k].active \in Nat

\* max_age = 1: two tracks were born and a later call has left them in the
\* track set, each at the greatest age
C19_Witness ==
  /\ cfg.max_age = 1
  /\ op = "frame" /\ M = 2 /\ Len(tracks) = 2
  /\ tracks[1].age = 1 /\ tracks[2].age = 1
  /\ tracks[1].active = cfg.min_hits

\* C20: a track whose age has reached max_age (its age is 1 plus the number
\* of consecutive frames in which it was unmatched) and that no detection of
\* a frame with an admitted detection can match is not in the track set
\* after the call, and an identity of the output that was not in the track
\* set before the call is above every identity an output of the session has
\* carried.
C20_BoundedStaleness ==
  [][ tracks # << >> =>
        \A results \in Frames, time_lag \in Lags :
          (ProcessFrame(results, time_lag) /\ Admitted(results) # << >>) =>
            /\ \A j \in 1..Len(tracks) :
                 (Stale(results, time_lag, j) /\ tracks[j].age >= cfg.max_age) =>
                   tracks[j].tracking_id \notin Ids(tracks')
            /\ \A k \in 1..Len(ret') :
                 ret'[k].tracking_id \notin Ids(tracks) => ret'[k].tracking_id > high
    ]_vars

====
